---------------------------- MODULE Spec2Model ----------------------------
(***************************************************************************)
(* Model of the codex-plan-reviewer scripts:                               *)
(*   - scripts/iterate_section.py : convergence loop over review rounds    *)
(*   - scripts/extract_sections.py: heading based document segmentation    *)
(*                                                                         *)
(* Text is modelled as a sequence of tokens.  In the convergence loop a    *)
(* token of reviewer output is a severity glyph ("red", "yellow", "blue"), *)
(* the approval phrase, or white space.  In the segmenter a token is one   *)
(* character, or one fixed literal of the context banner.                  *)
(*                                                                         *)
(* Specifications:                                                         *)
(*   Spec     - the loop of one section, started again and again           *)
(*   SpecPair - the loops of two sections of one document, side by side    *)
(*   SpecSeg  - main of extract_sections.py on every bounded document      *)
(*   SpecErr  - the extractor without its plan file, then the loop of Spec *)
(***************************************************************************)
EXTENDS Integers, Sequences, FiniteSets, TLC

VARIABLES
    \* ---- iterate_section.py: one loop instance per section stem ----
    pc,             \* position of main() for the section
    args,           \* parsed command line of the current invocation
    rounds_to_run,  \* rounds the for loop has still to run
    round_num,      \* loop variable
    prev_issues,    \* local prev_issues
    last_result,    \* local last_result
    result,         \* local result (return value of run_codex)
    user_input,     \* local user_input while it is in use (lines 198-203)
    \* ---- the iteration directories, by name ----
    files,          \* per directory: round number -> round file
    summary,        \* per directory: summary.md, <<>> (absent) or <<record>>
    \* ---- the codex session store ----
    last_session,   \* whose session "resume --last" resumes: a section or none
    \* ---- observation of the current invocation (not program state) ----
    calls,          \* run_codex calls of the current round
    invoked,        \* rounds for which run_codex was called in this invocation
    written,        \* rounds whose file was written in this invocation
    warned,         \* rounds in which the convergence warning was printed
    waited,         \* rounds before which input() was called
    checks,         \* what the input checks of lines 117-127 found
    resumed,        \* the sessions resumed by the resume call of the current round
    revised_seen,   \* <<round, is_file>> for every look at the revised file
    summary_obs,    \* summary.md as line 139 left it, while it is on disk, and
                    \* whether line 287 ran
    \* ---- extract_sections.py ----
    segpc,          \* position of main() and extract_sections()
    plan,           \* sys.argv[1]: not given, no such file, or a file
    sections_dir,   \* the sections directory: <<>> (absent) or <<name -> text>>
    content,        \* plan_path.read_text()
    lines,          \* content.splitlines()
    title,          \* extracted title line
    toc_lines,      \* extracted outline lines
    context,        \* context header
    sections,       \* the section list being built / returned
    level           \* heading level whose split produced the sections (0: none)

loopvars == <<pc, args, rounds_to_run, round_num, prev_issues, last_result,
              result, user_input, files, summary, last_session, calls, invoked,
              written, warned, waited, checks, resumed, revised_seen,
              summary_obs>>
segvars  == <<segpc, plan, sections_dir, content, lines, title, toc_lines,
              context, sections, level>>
vars     == <<pc, args, rounds_to_run, round_num, prev_issues, last_result,
              result, user_input, files, summary, last_session, calls, invoked,
              written, warned, waited, checks, resumed, revised_seen,
              summary_obs,
              segpc, plan, sections_dir, content, lines, title, toc_lines,
              context, sections, level>>

---------------------------------------------------------------------------
(* Bounds *)

\* largest max_rounds and largest --round N tried
MaxRounds == 3
\* most lines of an input document
MaxLines == 3

---------------------------------------------------------------------------
(* Generic helpers on token sequences *)

Range(s) == {s[i] : i \in 1..Len(s)}

\* white space as seen by str.strip() and \s
WhiteSpace == {" ", "\n", "\t"}

RECURSIVE LStrip(_)
LStrip(s) == IF s # <<>> /\ Head(s) \in WhiteSpace THEN LStrip(Tail(s)) ELSE s

RECURSIVE RStrip(_)
RStrip(s) ==
    IF s # <<>> /\ s[Len(s)] \in WhiteSpace
    THEN RStrip(SubSeq(s, 1, Len(s) - 1))
    ELSE s

\* str.strip()
Strip(s) == RStrip(LStrip(s))

\* str.startswith(prefix)
StartsWith(s, prefix) ==
    /\ Len(s) >= Len(prefix)
    /\ SubSeq(s, 1, Len(prefix)) = prefix

\* str.lower() on the letters the model uses
LowerChar(c) ==
    CASE c = "T" -> "t"
      [] c = "O" -> "o"
      [] c = "C" -> "c"
      [] c = "Q" -> "q"
      [] c = "A" -> "a"
      [] c = "B" -> "b"
      [] c = "U" -> "u"
      [] c = "I" -> "i"
      [] OTHER   -> c

Lower(s) == [i \in 1..Len(s) |-> LowerChar(s[i])]

\* the elements of a finite set of integers in increasing order
RECURSIVE Sorted(_)
Sorted(S) ==
    IF S = {} THEN <<>>
    ELSE LET m == CHOOSE x \in S : \A y \in S : x <= y
         IN  <<m>> \o Sorted(S \ {m})

---------------------------------------------------------------------------
(* iterate_section.py *)

\* the loop instances, named by the stem of their section file
Secs == {"s1", "s2"}

\* argparse leaves single_round at None without --round
NoRound == 0

\* the approval phrase looked for in the reviewer output
ApprovalPhrase == "SECTION APPROVED"

\* what the codex process may print on stdout
StdOuts ==
    { <<>>,
      <<"\n">>,
      <<"blue", "red", "\n">>,
      <<"red", "yellow">>,
      <<ApprovalPhrase>> }

\* what the user may type at input(); EOF is the separate outcome below
UserInputs == { <<>>, <<"q">>, <<" ", "Q", "U", "I", "T">>, <<"y">> }

\* count_issues: occurrences of the critical and the warning glyph
RECURSIVE count_issues(_)
count_issues(text) ==
    IF text = <<>> THEN 0
    ELSE (IF Head(text) \in {"red", "yellow"} THEN 1 ELSE 0)
         + count_issues(Tail(text))

\* "SECTION APPROVED" in text
HasApproval(text) == ApprovalPhrase \in Range(text)

\* run_codex, line 77: the value returned when the process ends in time
\* (lines 78-81 repeat the end of the call and the return statement)
run_codex_return(stdout) == Strip(stdout)

\* the text of a round file: header, then the reviewer output
FileText(f) == <<f.header>> \o f.result \o <<"\n">>

Round1File(res)    == [header |-> "# Iteration Round 1: Initial Review", result |-> res]
RoundNFile(res)    == [header |-> "# Iteration Round N", result |-> res]

\* WriteRoundFile that writes nothing for an empty reviewer output
WriteRoundFile_SkipEmpty(d, n, f) ==
    IF f.result = <<>> THEN d
    ELSE [r \in (DOMAIN d) \cup {n} |-> IF r = n THEN f ELSE d[r]]

\* Path.write_text of round_file into the directory d
WriteRoundFile(d, n, f) ==
    [r \in (DOMAIN d) \cup {n} |-> IF r = n THEN f ELSE d[r]]

NoArgs == [single_round |-> NoRound, max_rounds |-> 3, no_interactive |-> FALSE]

\* the section file a loop instance is started with: a file of the sections
\* directory, named <stem>.md
SectionFile(s) == [parent |-> "sections", stem |-> s, suffix |-> ".md"]

\* line 130: section_file.stem
section_basename(path) == path.stem

\* IterationDir that leaves out the section name
IterationDir_Shared(s) == "s1"

\* lines 129-133: review_dir / "feedback" / "iterations" / section_basename;
\* review_dir is the same for all sections of a document, so the directory
\* is identified by its last component
IterationDir(s) == section_basename(SectionFile(s))

\* the iteration directories of the sections
Dirs == {IterationDir(s) : s \in Secs}

\* no line was read from the user
NoInput == <<"<none>">>

\* no codex session
NoSession == "none"

\* nothing found by line 139 yet and line 287 not reached
NoSummaryObs == [found |-> <<>>, written |-> FALSE]

LoopInit ==
    /\ pc            = [s \in Secs |-> "idle"]
    /\ args          = [s \in Secs |-> NoArgs]
    /\ rounds_to_run = [s \in Secs |-> <<>>]
    /\ round_num     = [s \in Secs |-> 0]
    /\ prev_issues   = [s \in Secs |-> 0]
    /\ last_result   = [s \in Secs |-> <<>>]
    /\ result        = [s \in Secs |-> <<>>]
    /\ user_input    = [s \in Secs |-> NoInput]
    /\ files         = [d \in Dirs |-> <<>>]
    /\ summary       = [d \in Dirs |-> <<>>]
    /\ last_session  = NoSession
    /\ checks        = [s \in Secs |-> [section_is_file |-> TRUE, prompt_is_file |-> TRUE]]
    /\ calls         = [s \in Secs |-> <<>>]
    /\ resumed       = [s \in Secs |-> {}]
    /\ invoked       = [s \in Secs |-> {}]
    /\ written       = [s \in Secs |-> {}]
    /\ warned        = [s \in Secs |-> {}]
    /\ waited        = [s \in Secs |-> {}]
    /\ revised_seen  = [s \in Secs |-> {}]
    /\ summary_obs   = [s \in Secs |-> NoSummaryObs]

\* InputsOk without the check of the prompt file
InputsOk_SectionOnly(section_is_file, prompt_is_file) == section_is_file

\* lines 117-127: the section file exists and the review type has a prompt
InputsOk(section_is_file, prompt_is_file) == section_is_file /\ prompt_is_file

\* CleanOnStart without the test of the round number
CleanOnStart_Always(a) == a.single_round = NoRound \/ a.single_round >= 1

\* line 136: the directory is cleaned for a full run or --round 1
CleanOnStart(a) == a.single_round = NoRound \/ a.single_round = 1

\* RoundsToRun that stops one round short of max_rounds
RoundsToRun_OneShort(a) ==
    IF a.single_round # NoRound
    THEN <<a.single_round>>
    ELSE [i \in 1..(a.max_rounds - 1) |-> i]

\* lines 144-147: the rounds the for loop iterates over
RoundsToRun(a) ==
    IF a.single_round # NoRound
    THEN <<a.single_round>>
    ELSE [i \in 1..a.max_rounds |-> i]

\* line 112
interactive(a) == ~a.no_interactive

\* input() raising EOFError
EndOfInput == <<"<EOF>">>

\* StopAnswer for which the end of the input is no answer to stop
StopAnswer_EofGoesOn(typed) ==
    Lower(Strip(typed)) \in { <<"q">>, <<"q", "u", "i", "t">> }

\* lines 198-203: the answer that stops the loop
StopAnswer(typed) ==
    LET answer == IF typed = EndOfInput THEN <<"q">> ELSE typed
    IN  Lower(Strip(answer)) \in { <<"q">>, <<"q", "u", "i", "t">> }

\* RevisedMissing that takes every path for an existing file
RevisedMissing_Never(revised_is_file) == FALSE

\* line 207: "if not revised_path.is_file()"
RevisedMissing(revised_is_file) == ~revised_is_file

\* ResumeFailed that never asks for the fallback
ResumeFailed_Never(res) == FALSE

\* line 239: "if not result"
ResumeFailed(res) == res = <<>>

\* BreakOnApproval that never breaks
BreakOnApproval_Never(res) == FALSE

\* line 261: the approval check that breaks out of the loop
BreakOnApproval(res) == HasApproval(res)

\* line 266: the convergence warning
StallWarning(current_issues, prev, n) == current_issues >= prev /\ n >= 3

\* lines 66-86: how a run_codex call can end: the stripped stdout is
\* returned, TimeoutError is raised, or the codex command is not found and
\* run_codex itself calls sys.exit(1)
Outcomes == {"returned", "timeout", "notfound"}

\* one observed run_codex call: round, prompt, resume flag, outcome and
\* returned value (<<>> when nothing is returned)
Call(n, resume, outcome, out) ==
    [round   |-> n,
     prompt  |-> IF n = 1 THEN "full_prompt" ELSE "resume_prompt",
     resume  |-> resume,
     outcome |-> outcome,
     out     |-> out]

\* lines 56-59: "codex exec --ephemeral -" starts a session of its own; the
\* command asks codex not to keep it, and whether it then is the most recent
\* session of the codex store is up to codex
SessionAfterExec(s, recorded) == IF recorded THEN s ELSE last_session

\* lines 51-54: "codex exec resume --last -" names no session; codex resumes
\* the most recent one of its store
SessionResumed == last_session

\* lines 94-127 for one command line and one state of the input files:
\* the locals start afresh, a failed check ends the run with status 1
Start(s, single, maxr, noint, section_is_file, prompt_is_file) ==
    /\ args' = [args EXCEPT ![s] =
           [single_round |-> single, max_rounds |-> maxr,
            no_interactive |-> noint]]
    /\ checks' = [checks EXCEPT ![s] =
           [section_is_file |-> section_is_file,
            prompt_is_file  |-> prompt_is_file]]
    /\ pc' = [pc EXCEPT ![s] =
           IF InputsOk(section_is_file, prompt_is_file)
           THEN "setup" ELSE "exit1"]
    /\ rounds_to_run' = [rounds_to_run EXCEPT ![s] = <<>>]
    /\ round_num'     = [round_num EXCEPT ![s] = 0]
    /\ prev_issues'   = [prev_issues EXCEPT ![s] = 0]
    /\ last_result'   = [last_result EXCEPT ![s] = <<>>]
    /\ result'        = [result EXCEPT ![s] = <<>>]
    /\ user_input'    = [user_input EXCEPT ![s] = NoInput]
    /\ calls'         = [calls EXCEPT ![s] = <<>>]
    /\ resumed'       = [resumed EXCEPT ![s] = {}]
    /\ invoked'       = [invoked EXCEPT ![s] = {}]
    /\ written'       = [written EXCEPT ![s] = {}]
    /\ warned'        = [warned EXCEPT ![s] = {}]
    /\ waited'        = [waited EXCEPT ![s] = {}]
    /\ revised_seen'  = [revised_seen EXCEPT ![s] = {}]
    /\ summary_obs'   = [summary_obs EXCEPT ![s] = NoSummaryObs]
    /\ UNCHANGED <<files, summary, last_session>>
    /\ UNCHANGED segvars

\* lines 94-127: argument parsing and the checks of the inputs; the script
\* can be started again after it has ended
Invoke(s) ==
    /\ pc[s] \in {"idle", "exit0", "exit1"}
    /\ \E single \in {NoRound} \cup (1..MaxRounds),
          maxr \in 1..MaxRounds,
          noint \in BOOLEAN,
          section_is_file \in BOOLEAN,
          prompt_is_file \in BOOLEAN :
          /\ single # NoRound => maxr = NoArgs.max_rounds
          \* a failing check ends the run before an argument is used and the
          \* prompt is not looked for without a section file: one command
          \* line per --round value stands for all
          /\ (~section_is_file \/ ~prompt_is_file) =>
                 /\ maxr = NoArgs.max_rounds
                 /\ ~noint
                 /\ ~section_is_file => prompt_is_file
          /\ Start(s, single, maxr, noint, section_is_file, prompt_is_file)

\* lines 94-127 as the orchestrator starts the loop for each section of a
\* document: once, "--max-rounds 2 --no-interactive", inputs in place
InvokeOnce(s) ==
    /\ pc[s] = "idle"
    /\ Start(s, NoRound, 2, TRUE, TRUE, TRUE)

\* lines 129-150: iteration directory, rounds_to_run, prev_issues, last_result
Setup(s) ==
    /\ pc[s] = "setup"
    /\ IF CleanOnStart(args[s])
       THEN /\ files'   = [files EXCEPT ![IterationDir(s)] = <<>>]
            /\ summary' = [summary EXCEPT ![IterationDir(s)] = <<>>]
       ELSE UNCHANGED <<files, summary>>
    /\ rounds_to_run' = [rounds_to_run EXCEPT ![s] = RoundsToRun(args[s])]
    /\ prev_issues'   = [prev_issues EXCEPT ![s] = 0]
    /\ last_result'   = [last_result EXCEPT ![s] = <<>>]
    /\ summary_obs'   = [summary_obs EXCEPT ![s].found = summary'[IterationDir(s)]]
    /\ pc'            = [pc EXCEPT ![s] = "loop"]
    /\ UNCHANGED <<args, round_num, result, user_input, last_session, checks,
                   calls, resumed, invoked, written, warned, waited, revised_seen>>
    /\ UNCHANGED segvars

\* lines 152-155, 193-195: the head of the for loop and the branch on the round
LoopTop(s) ==
    /\ pc[s] = "loop"
    /\ IF rounds_to_run[s] = <<>>
       THEN /\ pc' = [pc EXCEPT ![s] = "summary"]
            /\ UNCHANGED <<rounds_to_run, round_num, calls, resumed>>
       ELSE /\ round_num'     = [round_num EXCEPT ![s] = Head(rounds_to_run[s])]
            /\ rounds_to_run' = [rounds_to_run EXCEPT ![s] = Tail(rounds_to_run[s])]
            /\ calls'         = [calls EXCEPT ![s] = <<>>]
            /\ resumed'       = [resumed EXCEPT ![s] = {}]
            /\ pc' = [pc EXCEPT ![s] =
                   IF Head(rounds_to_run[s]) = 1 THEN "round1"
                   ELSE IF interactive(args[s]) THEN "wait"
                   ELSE "revised"]
    /\ UNCHANGED <<args, prev_issues, last_result, result, user_input, files,
                   summary, last_session, checks, invoked, written, warned,
                   waited, revised_seen>>
    /\ UNCHANGED summary_obs
    /\ UNCHANGED segvars

\* Round1 with the timeout handled as in the later rounds (result = "")
Round1_TimeoutSwallowed(s) ==
    /\ pc[s] = "round1"
    /\ invoked' = [invoked EXCEPT ![s] = @ \cup {1}]
    /\ \E outcome \in {"returned", "timeout"}, stdout \in StdOuts,
          recorded \in BOOLEAN :
          LET res == IF outcome = "timeout" THEN <<>> ELSE run_codex_return(stdout) IN
          /\ outcome = "timeout" => stdout = <<>>
          /\ calls'       = [calls EXCEPT ![s] = Append(@, Call(1, FALSE, outcome, res))]
          /\ last_session' = SessionAfterExec(s, recorded)
          /\ result'      = [result EXCEPT ![s] = res]
          /\ files'       = [files EXCEPT ![IterationDir(s)] =
                                 [r \in (DOMAIN @) \cup {1} |->
                                     IF r = 1
                                     THEN [header |-> "# Iteration Round 1: Initial Review",
                                           result |-> res]
                                     ELSE @[r]]]
          /\ written'     = [written EXCEPT ![s] = @ \cup {1}]
          /\ prev_issues' = [prev_issues EXCEPT ![s] = count_issues(res)]
          /\ last_result' = [last_result EXCEPT ![s] = res]
          /\ pc'          = [pc EXCEPT ![s] = "loop"]
    /\ UNCHANGED <<args, rounds_to_run, round_num, user_input, summary, checks,
                   resumed, warned, waited, revised_seen>>
    /\ UNCHANGED summary_obs
    /\ UNCHANGED segvars

\* lines 156-191: round 1, a fresh reviewer call and the round file
Round1(s) ==
    /\ pc[s] = "round1"
    /\ invoked' = [invoked EXCEPT ![s] = @ \cup {1}]
    /\ \/ \* lines 174-176: TimeoutError; lines 84-86: codex not found
          \E outcome \in {"timeout", "notfound"}, recorded \in BOOLEAN :
          /\ outcome = "notfound" => ~recorded
          /\ calls' = [calls EXCEPT ![s] = Append(@, Call(1, FALSE, outcome, <<>>))]
          /\ last_session' = SessionAfterExec(s, recorded)
          /\ pc'    = [pc EXCEPT ![s] = "exit1"]
          /\ UNCHANGED <<result, files, written, prev_issues, last_result>>
       \/ \E stdout \in StdOuts, recorded \in BOOLEAN :
          LET res == run_codex_return(stdout) IN
          /\ calls'       = [calls EXCEPT ![s] =
                                 Append(@, Call(1, FALSE, "returned", res))]
          /\ last_session' = SessionAfterExec(s, recorded)
          /\ result'      = [result EXCEPT ![s] = res]
          /\ files'       = [files EXCEPT ![IterationDir(s)] =
                                 WriteRoundFile(@, 1, Round1File(res))]
          /\ written'     = [written EXCEPT ![s] = @ \cup {1}]
          /\ prev_issues' = [prev_issues EXCEPT ![s] = count_issues(res)]
          /\ last_result' = [last_result EXCEPT ![s] = res]
          /\ pc'          = [pc EXCEPT ![s] = "loop"]
    /\ UNCHANGED <<args, rounds_to_run, round_num, user_input, summary, checks,
                   resumed, warned, waited, revised_seen>>
    /\ UNCHANGED summary_obs
    /\ UNCHANGED segvars

\* lines 195-205: the interactive wait before a re-review
Wait(s) ==
    /\ pc[s] = "wait"
    /\ waited' = [waited EXCEPT ![s] = @ \cup {round_num[s]}]
    /\ \E typed \in UserInputs \cup {EndOfInput} :
          /\ user_input' = [user_input EXCEPT ![s] = typed]
          /\ pc' = [pc EXCEPT ![s] = IF StopAnswer(typed) THEN "summary" ELSE "revised"]
    /\ UNCHANGED <<args, rounds_to_run, round_num, prev_issues, last_result, result,
                   files, summary, last_session, checks, calls, resumed, invoked,
                   written, warned, revised_seen>>
    /\ UNCHANGED summary_obs
    /\ UNCHANGED segvars

\* lines 207-211: the revised file must exist; user_input is not used again
CheckRevised(s) ==
    /\ pc[s] = "revised"
    /\ \E revised_is_file \in BOOLEAN :
          /\ revised_seen' = [revised_seen EXCEPT ![s] =
                                  @ \cup {<<round_num[s], revised_is_file>>}]
          /\ pc' = [pc EXCEPT ![s] =
                        IF RevisedMissing(revised_is_file) THEN "exit1" ELSE "resume"]
    /\ user_input' = [user_input EXCEPT ![s] = NoInput]
    /\ UNCHANGED <<args, rounds_to_run, round_num, prev_issues, last_result, result,
                   files, summary, last_session, checks, calls, resumed, invoked,
                   written, warned, waited>>
    /\ UNCHANGED summary_obs
    /\ UNCHANGED segvars

\* lines 232-239: the reviewer call that resumes the session
Resume(s) ==
    /\ pc[s] = "resume"
    /\ invoked' = [invoked EXCEPT ![s] = @ \cup {round_num[s]}]
    /\ \/ \* lines 84-86: codex not found
          /\ calls' = [calls EXCEPT ![s] =
                           Append(@, Call(round_num[s], TRUE, "notfound", <<>>))]
          /\ pc'    = [pc EXCEPT ![s] = "exit1"]
          /\ UNCHANGED <<result, resumed>>
       \/ \* lines 234-236: TimeoutError sets result = ""
          \E outcome \in {"returned", "timeout"}, stdout \in StdOuts :
          LET res == IF outcome = "timeout" THEN <<>> ELSE run_codex_return(stdout) IN
          /\ outcome = "timeout" => stdout = <<>>
          /\ calls'  = [calls EXCEPT ![s] =
                            Append(@, Call(round_num[s], TRUE, outcome, res))]
          /\ resumed' = [resumed EXCEPT ![s] = @ \cup {SessionResumed}]
          /\ result' = [result EXCEPT ![s] = res]
          /\ pc'     = [pc EXCEPT ![s] =
                            IF ResumeFailed(res) THEN "fallback" ELSE "persist"]
    /\ UNCHANGED <<args, rounds_to_run, round_num, prev_issues, last_result,
                   user_input, files, summary, last_session, checks, written,
                   warned, waited, revised_seen>>
    /\ UNCHANGED summary_obs
    /\ UNCHANGED segvars

\* Fallback whose timeout leaves the loop as a break does
Fallback_TimeoutBreaks(s) ==
    /\ pc[s] = "fallback"
    /\ \/ \E outcome \in {"timeout", "notfound"}, recorded \in BOOLEAN :
          /\ outcome = "notfound" => ~recorded
          /\ calls' = [calls EXCEPT ![s] =
                           Append(@, Call(round_num[s], FALSE, outcome, <<>>))]
          /\ last_session' = SessionAfterExec(s, recorded)
          /\ pc'    = [pc EXCEPT ![s] =
                           IF outcome = "timeout" THEN "summary" ELSE "exit1"]
          /\ UNCHANGED result
       \/ \E stdout \in StdOuts, recorded \in BOOLEAN :
          LET res == run_codex_return(stdout) IN
          /\ calls'  = [calls EXCEPT ![s] =
                            Append(@, Call(round_num[s], FALSE, "returned", res))]
          /\ last_session' = SessionAfterExec(s, recorded)
          /\ result' = [result EXCEPT ![s] = res]
          /\ pc'     = [pc EXCEPT ![s] = "persist"]
    /\ UNCHANGED <<args, rounds_to_run, round_num, prev_issues, last_result,
                   user_input, files, summary, checks, resumed, invoked, written,
                   warned, waited, revised_seen>>
    /\ UNCHANGED summary_obs
    /\ UNCHANGED segvars

\* lines 239-245: the fresh reviewer call after a failed resume
Fallback(s) ==
    /\ pc[s] = "fallback"
    /\ \/ \* lines 243-245: TimeoutError; lines 84-86: codex not found
          \E outcome \in {"timeout", "notfound"}, recorded \in BOOLEAN :
          /\ outcome = "notfound" => ~recorded
          /\ calls' = [calls EXCEPT ![s] =
                           Append(@, Call(round_num[s], FALSE, outcome, <<>>))]
          /\ last_session' = SessionAfterExec(s, recorded)
          /\ pc'    = [pc EXCEPT ![s] = "exit1"]
          /\ UNCHANGED result
       \/ \E stdout \in StdOuts, recorded \in BOOLEAN :
          LET res == run_codex_return(stdout) IN
          /\ calls'  = [calls EXCEPT ![s] =
                            Append(@, Call(round_num[s], FALSE, "returned", res))]
          /\ last_session' = SessionAfterExec(s, recorded)
          /\ result' = [result EXCEPT ![s] = res]
          /\ pc'     = [pc EXCEPT ![s] = "persist"]
    /\ UNCHANGED <<args, rounds_to_run, round_num, prev_issues, last_result,
                   user_input, files, summary, checks, resumed, invoked, written,
                   warned, waited, revised_seen>>
    /\ UNCHANGED summary_obs
    /\ UNCHANGED segvars

\* lines 247-272: the round file, the approval check, the convergence warning
Persist(s) ==
    /\ pc[s] = "persist"
    /\ files'       = [files EXCEPT ![IterationDir(s)] =
                           WriteRoundFile(@, round_num[s], RoundNFile(result[s]))]
    /\ written'     = [written EXCEPT ![s] = @ \cup {round_num[s]}]
    /\ last_result' = [last_result EXCEPT ![s] = result[s]]
    /\ LET current_issues == count_issues(result[s]) IN
       IF BreakOnApproval(result[s])
       THEN /\ pc' = [pc EXCEPT ![s] = "summary"]
            /\ UNCHANGED <<prev_issues, warned>>
       ELSE /\ warned' = [warned EXCEPT ![s] =
                   IF StallWarning(current_issues, prev_issues[s], round_num[s])
                   THEN @ \cup {round_num[s]} ELSE @]
            /\ prev_issues' = [prev_issues EXCEPT ![s] = current_issues]
            /\ pc' = [pc EXCEPT ![s] = "loop"]
    /\ UNCHANGED <<args, rounds_to_run, round_num, result, user_input, summary,
                   last_session, checks, calls, resumed, invoked, waited,
                   revised_seen>>
    /\ UNCHANGED summary_obs
    /\ UNCHANGED segvars

\* lines 282-285: one record per round file, in the order of sorted(glob)
RoundHistory(d) ==
    LET names == Sorted(DOMAIN d)
    IN  [i \in 1..Len(names) |->
            [round |-> names[i], issues |-> count_issues(FileText(d[names[i]]))]]

\* lines 274-289: the summary
Summary(s) ==
    /\ pc[s] = "summary"
    /\ summary' = [summary EXCEPT ![IterationDir(s)] =
           << [approved |-> HasApproval(last_result[s]),
               history  |-> RoundHistory(files[IterationDir(s)])] >>]
    \* the file that line 139 left is replaced
    /\ summary_obs' = [summary_obs EXCEPT ![s] = [found |-> <<>>, written |-> TRUE]]
    /\ pc' = [pc EXCEPT ![s] = "exit0"]
    /\ UNCHANGED <<args, rounds_to_run, round_num, prev_issues, last_result, result,
                   user_input, files, last_session, checks, calls, resumed,
                   invoked, written, warned, waited, revised_seen>>
    /\ UNCHANGED segvars

SegOff ==
    /\ segpc     = "off"
    /\ plan      = "noarg"
    /\ sections_dir = <<>>
    /\ content   = <<>>
    /\ lines     = <<>>
    /\ title     = <<>>
    /\ toc_lines = <<>>
    /\ context   = <<>>
    /\ sections  = <<>>
    /\ level     = 0

Init == LoopInit /\ SegOff

\* the sections whose loop runs in the specification Spec
Running == {"s1"}

Next ==
    \E s \in Running :
        \/ Invoke(s)
        \/ Setup(s)
        \/ LoopTop(s)
        \/ Round1(s)
        \/ Wait(s)
        \/ CheckRevised(s)
        \/ Resume(s)
        \/ Fallback(s)
        \/ Persist(s)
        \/ Summary(s)

Spec == Init /\ [][Next]_vars

\* the loops of two sections of one document, run side by side
NextPair ==
    \E s \in Secs :
        \/ InvokeOnce(s)
        \/ Setup(s)
        \/ LoopTop(s)
        \/ Round1(s)
        \/ CheckRevised(s)
        \/ Resume(s)
        \/ Fallback(s)
        \/ Persist(s)
        \/ Summary(s)

SpecPair == Init /\ [][NextPair]_vars




---------------------------------------------------------------------------
(* extract_sections.py *)

\* "\n".join(ls)
RECURSIVE Join(_)
Join(ls) ==
    IF ls = <<>> THEN <<>>
    ELSE IF Len(ls) = 1 THEN ls[1]
    ELSE ls[1] \o <<"\n">> \o Join(Tail(ls))

\* str.split("\n"): the pieces between the line breaks
RECURSIVE SplitNL(_, _)
SplitNL(text, cur) ==
    IF text = <<>> THEN <<cur>>
    ELSE IF Head(text) = "\n" THEN <<cur>> \o SplitNL(Tail(text), <<>>)
    ELSE SplitNL(Tail(text), Append(cur, Head(text)))

\* str.splitlines(): no empty last line after a final line break
SplitLines(text) ==
    LET pieces == SplitNL(text, <<>>)
    IN  IF pieces[Len(pieces)] = <<>>
        THEN SubSeq(pieces, 1, Len(pieces) - 1)
        ELSE pieces

\* the lines documents are made of
DocLines ==
    { <<"#", " ", "T">>,
      <<"#", " ", "U">>,
      <<"#", " ", "t", "o", "c">>,
      <<"#", "#", " ", "A">>,
      <<"#", "#", " ", "a", "!">>,
      <<"#", "#", " ", "T", "o", "c">>,
      <<"#", "#", "#", " ", "B">>,
      <<"#", "#", "#", " ", "T", "O", "C", " ">>,
      <<"x">> }

RECURSIVE SeqsUpTo(_, _)
SeqsUpTo(S, n) ==
    IF n = 0 THEN {<<>>}
    ELSE LET shorter == SeqsUpTo(S, n - 1)
         IN  shorter \cup {Append(q, x) : q \in shorter, x \in S}

\* the texts read from plan_path: up to MaxLines lines, with or without a
\* final line break
Contents ==
    {Join(ls) \o nl : ls \in SeqsUpTo(DocLines, MaxLines), nl \in {<<>>, <<"\n">>}}

\* "#" * level + " "
HeadingPrefix(lv) == [i \in 1..(lv + 1) |-> IF i <= lv THEN "#" ELSE " "]

\* line 22
DefaultTitle == <<"#", " ", "Untitled Document">>

\* lines 22-26: the first top-level heading line, or the placeholder
RECURSIVE ExtractTitle(_)
ExtractTitle(ls) ==
    IF ls = <<>> THEN DefaultTitle
    ELSE IF StartsWith(Head(ls), HeadingPrefix(1))
            /\ ~StartsWith(Head(ls), HeadingPrefix(2))
         THEN Head(ls)
         ELSE ExtractTitle(Tail(ls))

\* the three names of an outline heading
TocAliases ==
    { <<"t", "a", "b", "l", "e", " ", "o", "f", " ",
        "c", "o", "n", "t", "e", "n", "t", "s">>,
      <<"t", "o", "c">>,
      <<"c", "o", "n", "t", "e", "n", "t", "s">> }

\* line 32: ^##\s+(table of contents|toc|contents)\s*$, ignoring case
IsTocHeading(line) ==
    /\ StartsWith(line, <<"#", "#">>)
    /\ LET rest == SubSeq(line, 3, Len(line))
       IN  /\ rest # <<>>
           /\ Head(rest) \in WhiteSpace
           /\ Lower(Strip(rest)) \in TocAliases

\* lines 29-38: the lines after an outline heading, up to the next "## "
RECURSIVE ExtractToc(_, _)
ExtractToc(ls, in_toc) ==
    IF ls = <<>> THEN <<>>
    ELSE IF IsTocHeading(Head(ls)) THEN ExtractToc(Tail(ls), TRUE)
    ELSE IF in_toc
         THEN IF StartsWith(Head(ls), HeadingPrefix(2)) THEN <<>>
              ELSE <<Head(ls)>> \o ExtractToc(Tail(ls), TRUE)
    ELSE ExtractToc(Tail(ls), FALSE)

\* lines 45-47: the separator banner
Banner ==
    << "---", "\n",
       "*The following is one section from the above document, extracted for focused review.*",
       "\n", "---", "\n", "\n" >>

\* lines 41-47: the context header
BuildContext(ttl, toc) ==
    ttl \o <<"\n", "\n">>
        \o (IF toc # <<>>
            THEN <<"## Document Structure", "\n">> \o Join(toc) \o <<"\n", "\n">>
            ELSE <<>>)
        \o Banner

Section(name, text) == [name |-> name, content |-> text]

\* TitleSkipped that skips nothing
TitleSkipped_Never(lv, line, ttl) == FALSE

\* line 89: the title line is no split point of the H1 split
TitleSkipped(lv, line, ttl) == lv = 1 /\ line = ttl

\* lines 85-107: the loop of _split_on_heading; cur is <<>> while
\* current_name is None, and <<[name, lines]>> afterwards
RECURSIVE SplitLoop(_, _, _, _, _)
SplitLoop(ls, lv, ttl, done, cur) ==
    LET flush == IF cur = <<>> THEN done
                 ELSE Append(done, Section(cur[1].name, Join(cur[1].lines)))
    IN  IF ls = <<>> THEN flush
        ELSE LET line == Head(ls) IN
             IF StartsWith(line, HeadingPrefix(lv))
             THEN IF TitleSkipped(lv, line, ttl)
                  THEN SplitLoop(Tail(ls), lv, ttl, done, cur)
                  ELSE SplitLoop(Tail(ls), lv, ttl, flush,
                           << [name  |-> Strip(SubSeq(line, lv + 2, Len(line))),
                               lines |-> <<line>>] >>)
             ELSE IF cur # <<>>
                  THEN SplitLoop(Tail(ls), lv, ttl, done,
                           << [name  |-> cur[1].name,
                               lines |-> Append(cur[1].lines, line)] >>)
                  ELSE SplitLoop(Tail(ls), lv, ttl, done, cur)

\* lines 78-109
split_on_heading(ls, lv, ttl) == SplitLoop(ls, lv, ttl, <<>>, <<>>)

\* IsTocName that compares without folding the case
IsTocName_CaseSensitive(name) == name \in TocAliases

\* line 68: (table of contents|toc|contents)$ matched at the start, ignoring case
IsTocName(name) == Lower(name) \in TocAliases

\* lines 66-69
RECURSIVE FilterToc(_)
FilterToc(ss) ==
    IF ss = <<>> THEN <<>>
    ELSE IF IsTocName(Head(ss).name) THEN FilterToc(Tail(ss))
    ELSE <<Head(ss)>> \o FilterToc(Tail(ss))

\* line 63
FullDocumentName == <<"full-document">>

\* str.lower() and the characters [a-z0-9]; the name "full-document" is one
\* token and made of such characters and "-"
SafeChars ==
    { "a", "b", "c", "d", "e", "f", "g", "h", "i", "j", "k", "l", "m",
      "n", "o", "p", "q", "r", "s", "t", "u", "v", "w", "x", "y", "z",
      "0", "1", "2", "3", "4", "5", "6", "7", "8", "9", "full-document" }

\* re.sub(r"[^a-z0-9]+", "-", s): every run of other characters becomes "-"
RECURSIVE SubUnsafe(_, _)
SubUnsafe(s, in_run) ==
    IF s = <<>> THEN <<>>
    ELSE IF Head(s) \in SafeChars THEN <<Head(s)>> \o SubUnsafe(Tail(s), FALSE)
    ELSE IF in_run THEN SubUnsafe(Tail(s), TRUE)
    ELSE <<"-">> \o SubUnsafe(Tail(s), TRUE)

\* str.strip("-")
RECURSIVE StripDash(_)
StripDash(s) ==
    IF s # <<>> /\ Head(s) = "-" THEN StripDash(Tail(s))
    ELSE IF s # <<>> /\ s[Len(s)] = "-" THEN StripDash(SubSeq(s, 1, Len(s) - 1))
    ELSE s

\* lines 112-115
sanitize_filename(name) == StripDash(SubUnsafe(Lower(name), FALSE))

Digit(d) == <<"0", "1", "2", "3", "4", "5", "6", "7", "8", "9">>[d + 1]

RECURSIVE Decimal(_)
Decimal(n) ==
    IF n < 10 THEN <<Digit(n)>> ELSE Decimal(n \div 10) \o <<Digit(n % 10)>>

\* f"{i:02d}"
TwoDigits(i) == IF i < 10 THEN <<"0">> \o Decimal(i) ELSE Decimal(i)

\* SectionFilename without the number of the section
SectionFilename_NoIndex(i, name) == sanitize_filename(name) \o <<".md">>

\* lines 141-142: f"{i:02d}-{safe_name}.md"
SectionFilename(i, name) ==
    TwoDigits(i) \o <<"-">> \o sanitize_filename(name) \o <<".md">>

\* Path.write_text into the directory d
WriteFile(d, name, text) ==
    [f \in (DOMAIN d) \cup {name} |-> IF f = name THEN text ELSE d[f]]

\* lines 140-144: the loop over enumerate(sections, 1)
RECURSIVE WriteSections(_, _, _)
WriteSections(d, ss, i) ==
    IF ss = <<>> THEN d
    ELSE WriteSections(WriteFile(d, SectionFilename(i, Head(ss).name),
                                 Head(ss).content),
                       Tail(ss), i + 1)

\* a sections directory left by an earlier run
StaleDir == (<<"0", "1", "-", "o", "l", "d", ".md">> :> <<"x">>)

\* an empty directory
EmptyDir == [f \in {} |-> <<>>]

SegInit ==
    /\ LoopInit
    /\ segpc = "main"
    /\ plan \in {"noarg", "missing", "file"}
    /\ IF plan = "file" THEN content \in Contents ELSE content = <<>>
    /\ sections_dir \in {<<>>, <<StaleDir>>}
    /\ lines     = <<>>
    /\ title     = <<>>
    /\ toc_lines = <<>>
    /\ context   = <<>>
    /\ sections  = <<>>
    /\ level     = 0

\* lines 119-126: the checks of main, before anything is touched
SegMain ==
    /\ segpc = "main"
    /\ segpc' = IF plan = "file" THEN "clean" ELSE "exit1"
    /\ UNCHANGED <<plan, sections_dir, content, lines, title, toc_lines,
                   context, sections, level>>
    /\ UNCHANGED loopvars

\* lines 128-136: the sections directory of an earlier run is removed and
\* an empty one is made
SegClean ==
    /\ segpc = "clean"
    /\ sections_dir' = <<EmptyDir>>
    /\ segpc' = "start"
    /\ UNCHANGED <<plan, content, lines, title, toc_lines, context, sections, level>>
    /\ UNCHANGED loopvars

\* lines 18-47: lines, title, outline and context header
SegRead ==
    /\ segpc = "start"
    /\ lines'     = SplitLines(content)
    /\ title'     = ExtractTitle(lines')
    /\ toc_lines' = ExtractToc(lines', FALSE)
    /\ context'   = BuildContext(title', toc_lines')
    /\ segpc'     = "h2"
    /\ UNCHANGED <<plan, sections_dir, content, sections, level>>
    /\ UNCHANGED loopvars

\* line 50: split on H2
SegSplitH2 ==
    /\ segpc = "h2"
    /\ sections' = split_on_heading(lines, 2, title)
    /\ level'    = IF sections' # <<>> THEN 2 ELSE level
    /\ segpc'    = "h3"
    /\ UNCHANGED <<plan, sections_dir, content, lines, title, toc_lines, context>>
    /\ UNCHANGED loopvars

\* lines 54-55: fall back to H3
SegSplitH3 ==
    /\ segpc = "h3"
    /\ IF sections = <<>>
       THEN /\ sections' = split_on_heading(lines, 3, title)
            /\ level'    = IF sections' # <<>> THEN 3 ELSE level
       ELSE UNCHANGED <<sections, level>>
    /\ segpc' = "h1"
    /\ UNCHANGED <<plan, sections_dir, content, lines, title, toc_lines, context>>
    /\ UNCHANGED loopvars

\* lines 58-59: fall back to H1
SegSplitH1 ==
    /\ segpc = "h1"
    /\ IF sections = <<>>
       THEN /\ sections' = split_on_heading(lines, 1, title)
            /\ level'    = IF sections' # <<>> THEN 1 ELSE level
       ELSE UNCHANGED <<sections, level>>
    /\ segpc' = "last"
    /\ UNCHANGED <<plan, sections_dir, content, lines, title, toc_lines, context>>
    /\ UNCHANGED loopvars

\* lines 62-63: the whole document as one section
SegLastResort ==
    /\ segpc = "last"
    /\ IF sections = <<>>
       THEN sections' = <<Section(FullDocumentName, content)>>
       ELSE UNCHANGED sections
    /\ segpc' = "filter"
    /\ UNCHANGED <<plan, sections_dir, content, lines, title, toc_lines, context,
                   level>>
    /\ UNCHANGED loopvars

\* lines 66-69: the outline section is dropped
SegFilter ==
    /\ segpc = "filter"
    /\ sections' = FilterToc(sections)
    /\ segpc'    = "prepend"
    /\ UNCHANGED <<plan, sections_dir, content, lines, title, toc_lines, context,
                   level>>
    /\ UNCHANGED loopvars

\* lines 72-75: the context header goes in front of every section
SegPrepend ==
    /\ segpc = "prepend"
    /\ sections' = [i \in 1..Len(sections) |->
                       Section(sections[i].name, context \o sections[i].content)]
    /\ segpc'    = "returned"
    /\ UNCHANGED <<plan, sections_dir, content, lines, title, toc_lines, context,
                   level>>
    /\ UNCHANGED loopvars

\* lines 140-144: one file per returned section
SegWrite ==
    /\ segpc = "returned"
    /\ sections_dir' = <<WriteSections(sections_dir[1], sections, 1)>>
    /\ segpc' = "done"
    /\ UNCHANGED <<plan, content, lines, title, toc_lines, context, sections, level>>
    /\ UNCHANGED loopvars

SegNext ==
    \/ SegMain
    \/ SegClean
    \/ SegRead
    \/ SegSplitH2
    \/ SegSplitH3
    \/ SegSplitH1
    \/ SegLastResort
    \/ SegFilter
    \/ SegPrepend
    \/ SegWrite

\* main of extract_sections.py applied to every document of Contents
SpecSeg == SegInit /\ [][SegNext]_vars

\* the extractor is started for a plan file that does not exist, next to a
\* sections directory of an earlier run
SegInitMissing ==
    /\ LoopInit
    /\ segpc = "main"
    /\ plan = "missing"
    /\ sections_dir = <<StaleDir>>
    /\ content   = <<>>
    /\ lines     = <<>>
    /\ title     = <<>>
    /\ toc_lines = <<>>
    /\ context   = <<>>
    /\ sections  = <<>>
    /\ level     = 0

\* the failing extractor run, and then the loop of a section as in Spec;
\* the two scripts share no state
NextErr ==
    \/ SegMain
    \/ segpc = "exit1" /\ Next

SpecErr == SegInitMissing /\ [][NextErr]_vars

---------------------------------------------------------------------------
(* Properties of the segmenter *)

\* the content of section i without the context header
OwnContent(i) ==
    IF segpc \in {"returned", "done"}
    THEN SubSeq(sections[i].content, Len(context) + 1, Len(sections[i].content))
    ELSE sections[i].content

\* the document has a heading line of level lv
HasHeading(lv) == \E i \in 1..Len(lines) : StartsWith(lines[i], HeadingPrefix(lv))

\* the document has a first-level heading line other than the title
HasOtherH1 ==
    \E i \in 1..Len(lines) :
        StartsWith(lines[i], HeadingPrefix(1)) /\ lines[i] # title

\* C8 as stated: extract_sections returns at least one section, and when no
\* heading level yields a section it returns the one section "full-document"
\* whose own content is the whole input.
C8_SegmentationTotal ==
    segpc = "returned" =>
        /\ Len(sections) >= 1
        /\ level = 0 =>
               /\ Len(sections) = 1
               /\ sections[1].name = FullDocumentName
               /\ OwnContent(1) = content

C10_TocExcluded ==
    segpc = "returned" =>
        \A i \in 1..Len(sections) : Lower(sections[i].name) \notin TocAliases

\* a document with the H2 heading "Toc" and another H2 heading was split
C10_Witness ==
    /\ segpc = "returned"
    /\ level = 2
    /\ <<"#", "#", " ", "T", "o", "c">> \in Range(lines)
    /\ Len(sections) >= 1

\* the split points of the split at level lv, in document order: the indexes
\* of the lines that start with the heading prefix, the title line of the
\* first-level split left out
SplitPoints(lv) ==
    Sorted({i \in 1..Len(lines) :
               /\ StartsWith(lines[i], HeadingPrefix(lv))
               /\ ~(lv = 1 /\ lines[i] = title)})

\* C11: at the chosen level the sections, before the context header and the
\* outline filter, are in document order one per split point; the own content
\* of each is the lines from its heading to just before the next split point
\* (the last one runs to the end), so every line from the first split point
\* on is in exactly one section and the lines before it are in none.
C11_SectionsPartition ==
    (segpc = "filter" /\ level # 0) =>
        LET pts == SplitPoints(level)
            end(k) == IF k = Len(pts) THEN Len(lines) ELSE pts[k + 1] - 1
        IN  /\ Len(sections) = Len(pts)
            /\ \A k \in 1..Len(pts) :
                   SplitLines(sections[k].content) = SubSeq(lines, pts[k], end(k))

\* two returned sections have different names and the same sanitized name
NameCollision ==
    \E i, j \in 1..Len(sections) :
        /\ i < j
        /\ sections[i].name # sections[j].name
        /\ sanitize_filename(sections[i].name) = sanitize_filename(sections[j].name)

\* C20 as stated: when two differently named sections sanitize to the same
\* string, the file of the later one replaces the file of the earlier one,
\* and the sections directory ends with fewer files than sections returned.
C20_CollisionOverwrites ==
    (segpc = "done" /\ NameCollision) =>
        Cardinality(DOMAIN sections_dir[1]) < Len(sections)

\* C20 (amended): the file of the i-th returned section is named by the
\* two-digit number i, "-", the sanitized name and ".md", and holds the
\* content of that section; the sections directory ends with exactly as
\* many files as sections returned, also when differently named sections
\* sanitize to the same string.
C20_OneFilePerSection ==
    segpc = "done" =>
        /\ Cardinality(DOMAIN sections_dir[1]) = Len(sections)
        /\ \A i \in 1..Len(sections) :
               LET f == TwoDigits(i) \o <<"-">>
                            \o sanitize_filename(sections[i].name) \o <<".md">>
               IN  /\ f \in DOMAIN sections_dir[1]
                   /\ sections_dir[1][f] = sections[i].content

\* the sections "A" and "a!" of one document were written to two files
C20_Witness ==
    /\ segpc = "done"
    /\ NameCollision
    /\ Len(sections) = 2
    /\ Cardinality(DOMAIN sections_dir[1]) = 2

---------------------------------------------------------------------------
(* Properties of the convergence loop *)

\* a call that failed: it timed out, or it returned the empty string
Failed(c) == c.outcome = "timeout" \/ (c.outcome = "returned" /\ c.out = <<>>)

\* the output persisted for round r of section s
Persisted(s, r) == files[s][r].result

\* C1 as stated: in every round r >= 1 of a run, an output with the approval
\* phrase ends the run: no round above r is invoked or written, and the
\* summary says approved.
C1_ApprovalStopsAnyRound ==
    \A s \in Secs : \A r \in written[s] :
        HasApproval(Persisted(s, r)) =>
            /\ \A q \in invoked[s] \cup written[s] : q <= r
            /\ pc[s] = "exit0" =>
                   summary[s] # <<>> /\ summary[s][1].approved

\* C1 (amended): in every round r >= 2 of a run, an output with the approval
\* phrase ends the run at once: no round above r is invoked or written, the
\* loop is left for the summary, and the summary says approved, whatever is
\* left of the round budget.
C1_ApprovalShortCircuit ==
    \A s \in Secs : \A r \in written[s] :
        (r >= 2 /\ HasApproval(Persisted(s, r))) =>
            /\ \A q \in invoked[s] \cup written[s] : q <= r
            /\ pc[s] \in {"summary", "exit0"}
            /\ pc[s] = "exit0" =>
                   summary[s] # <<>> /\ summary[s][1].approved

\* a full run of three rounds approved in round 2 has ended with round 3 left
C1_Witness ==
    /\ pc["s1"] = "exit0"
    /\ args["s1"].single_round = NoRound
    /\ written["s1"] = {1, 2}
    /\ HasApproval(Persisted("s1", 2))
    /\ rounds_to_run["s1"] # <<>>

\* C2 as stated: the round files are numbered 1..k without a gap, and no
\* step writes a round file that is already there.
C2_RoundMonotonicity ==
    [][ \A s \in Secs :
          /\ DOMAIN files'[s] = 1..Cardinality(DOMAIN files'[s])
          /\ \A r \in DOMAIN files[s] :
                r \in DOMAIN files'[s] =>
                    /\ files'[s][r] = files[s][r]
                    /\ r \in written'[s] => r \in written[s] ]_vars

\* C3: round 1 makes one fresh call.  A round r >= 2 first makes a resuming
\* call; a fresh call with the same prompt follows exactly when the resuming
\* call returned nothing or timed out, there is no third call, and the output
\* persisted is the one of the last call; so it is not empty when the
\* reviewer answers nothing on resume and something when fresh.
C3_FallbackOnEmptyResume ==
    \A s \in Secs :
        LET c == calls[s]
            n == round_num[s]
            called == pc[s] \in {"persist", "loop", "summary", "exit0"}
        IN  /\ \A i \in 1..Len(c) : c[i].round = n
            /\ n = 1 =>
                   /\ Len(c) <= 1
                   /\ \A i \in 1..Len(c) : ~c[i].resume
                   /\ 1 \in written[s] =>
                          Len(c) = 1 /\ Persisted(s, 1) = c[1].out
            /\ n >= 2 =>
                   /\ Len(c) <= 2
                   /\ Len(c) >= 1 => c[1].resume
                   /\ Len(c) = 2 =>
                          /\ ~c[2].resume
                          /\ c[2].prompt = c[1].prompt
                          /\ Failed(c[1])
                   /\ pc[s] = "fallback" => Len(c) = 1 /\ Failed(c[1])
                   /\ (called /\ Len(c) >= 1) => (Len(c) = 2 <=> Failed(c[1]))
                   /\ n \in written[s] =>
                          /\ Len(c) >= 1
                          /\ Persisted(s, n) = c[Len(c)].out
                          /\ (Len(c) = 2 /\ c[2].out # <<>>) =>
                                 Persisted(s, n) # <<>>

\* a round >= 2 whose resuming call gave nothing and whose fresh call gave
\* an output, which was persisted
C3_Witness ==
    /\ round_num["s1"] >= 2
    /\ round_num["s1"] \in written["s1"]
    /\ Len(calls["s1"]) = 2
    /\ calls["s1"][1].out = <<>>
    /\ Persisted("s1", round_num["s1"]) # <<>>

\* C4 as stated: when the resuming call and the fresh call of a round r >= 2
\* both fail (nothing returned, or timeout), the round records an empty
\* result in its file and the run goes on.
C4_DoubleFailureRecorded ==
    \A s \in Secs :
        LET c == calls[s]
            n == round_num[s]
        IN  (n >= 2 /\ Len(c) = 2 /\ Failed(c[1]) /\ Failed(c[2])) =>
                /\ pc[s] \in {"persist", "loop", "summary", "exit0"}
                /\ pc[s] # "persist" =>
                       /\ n \in written[s]
                       /\ n \in DOMAIN files[s]
                       /\ Persisted(s, n) = <<>>

\* C4 (amended): when the resuming call of a round r >= 2 fails and the
\* fresh call returns nothing, the round records an empty result in its file
\* and the run goes on to the next round or to the summary; when the fresh
\* call times out, the run ends with status 1 and no file for round r.
C4_EmptyFallbackRecorded ==
    \A s \in Secs :
        LET c == calls[s]
            n == round_num[s]
        IN  (n >= 2 /\ Len(c) = 2 /\ Failed(c[1])) =>
                /\ (c[2].outcome = "returned" /\ c[2].out = <<>>) =>
                       /\ pc[s] \in {"persist", "loop", "summary", "exit0"}
                       /\ pc[s] # "persist" =>
                              /\ n \in written[s]
                              /\ n \in DOMAIN files[s]
                              /\ Persisted(s, n) = <<>>
                /\ c[2].outcome = "timeout" =>
                       /\ pc[s] = "exit1"
                       /\ n \notin written[s]

\* round 2 of a full run: both calls returned nothing, the empty round file
\* is there and the loop is at its head again
C4_Witness ==
    /\ pc["s1"] = "loop"
    /\ round_num["s1"] = 2
    /\ Len(calls["s1"]) = 2
    /\ calls["s1"][2].outcome = "returned"
    /\ 2 \in written["s1"]
    /\ Persisted("s1", 2) = <<>>
    /\ rounds_to_run["s1"] # <<>>

\* C5: when the call of round 1 times out the run ends with status 1: no
\* round file is written, no other call is made, no later round is started
\* and no summary is written.
C5_Round1TimeoutFatal ==
    \A s \in Secs :
        (calls[s] # <<>> /\ calls[s][1].round = 1
           /\ calls[s][1].outcome = "timeout") =>
            /\ pc[s] = "exit1"
            /\ round_num[s] = 1
            /\ Len(calls[s]) = 1
            /\ invoked[s] = {1}
            /\ written[s] = {}
            /\ files[s] = <<>>
            /\ summary[s] = <<>>

\* a full run whose first call timed out, with rounds left to run
C5_Witness ==
    /\ pc["s1"] = "exit1"
    /\ calls["s1"] # <<>>
    /\ calls["s1"][1].round = 1
    /\ calls["s1"][1].outcome = "timeout"
    /\ rounds_to_run["s1"] # <<>>

\* C6 as stated: an invocation with --round N never calls input().
C6_SingleRoundNeverWaits ==
    \A s \in Secs :
        args[s].single_round # NoRound =>
            /\ pc[s] # "wait"
            /\ waited[s] = {}

\* C7: the step that sets up the iteration directory removes the round files
\* and the summary exactly when the invocation is a full run or --round 1;
\* no other step removes a file; and in an invocation with --round N, N >= 2,
\* every round file other than N stays as it is.
C7_ResetOnlyAtRound1 ==
    [][ \A s \in Secs :
          LET setup   == pc[s] = "setup" /\ pc'[s] = "loop"
              removes == \/ \E r \in DOMAIN files[s] : r \notin DOMAIN files'[s]
                         \/ summary[s] # <<>> /\ summary'[s] = <<>>
              first   == args[s].single_round \in {NoRound, 1}
          IN  /\ (setup /\ first) => (files'[s] = <<>> /\ summary'[s] = <<>>)
              /\ (setup /\ ~first) =>
                     (files'[s] = files[s] /\ summary'[s] = summary[s])
              /\ removes => (setup /\ first)
              /\ args'[s].single_round >= 2 =>
                     \A r \in DOMAIN files[s] :
                         r # args'[s].single_round =>
                             /\ r \in DOMAIN files'[s]
                             /\ files'[s][r] = files[s][r] ]_vars

\* an invocation with --round 2 has ended and the file of round 1 is there
C7_Witness ==
    /\ pc["s1"] = "exit0"
    /\ args["s1"].single_round = 2
    /\ 2 \in written["s1"]
    /\ 1 \in DOMAIN files["s1"]
    /\ summary["s1"] # <<>>


\* C12: in a round r whose output has no approval phrase, the convergence
\* warning is printed exactly when r >= 3 and the issue count of round r is
\* at least the issue count of the persisted round r-1, in a full run and in
\* single-round mode alike; and the loop goes on to the rounds that are left.
C12_StallWarning ==
    \A s \in Secs : \A r \in written[s] :
        (/\ r >= 2
         /\ ~HasApproval(Persisted(s, r))
         /\ (r - 1) \in DOMAIN files[s]) =>
            /\ r \in warned[s] <=>
                   (/\ r >= 3
                    /\ count_issues(Persisted(s, r))
                           >= count_issues(Persisted(s, r - 1)))
            /\ (r = round_num[s] /\ pc[s] \in {"summary", "exit0"}) =>
                   rounds_to_run[s] = <<>>

\* C13: when the revised file is missing at the check before round r >= 2,
\* the loop ends with exit status 1: the reviewer is not called for round r,
\* no file of round r is written, no round above r - 1 was run, and the step
\* leaves the round files and the summary as they were.
C13_MissingRevisionFatal ==
    [][ \A s \in Secs : \A p \in revised_seen'[s] :
          ~p[2] =>
              /\ p[1] >= 2
              /\ round_num'[s] = p[1]
              /\ pc'[s] = "exit1"
              /\ \A q \in invoked'[s] \cup written'[s] : q < p[1]
              /\ calls'[s] = <<>>
              /\ files'[s] = files[s]
              /\ summary'[s] = summary[s] ]_vars

\* a full run has written round 1, found no revised file before round 2 and
\* has ended with status 1
C13_Witness ==
    /\ pc["s1"] = "exit1"
    /\ <<2, FALSE>> \in revised_seen["s1"]
    /\ 1 \in written["s1"]
    /\ 1 \in DOMAIN files["s1"]

\* C14: with the loops of two sections interleaved, a resume call of a
\* section never resumes a session that the loop of the other section
\* created.
C14_SessionIsolation ==
    \A s \in Secs : \A x \in resumed[s] : x # NoSession => x = s

\* the run of section s is a full run without the interactive wait
FullRunNoWait(s) == args[s].single_round = NoRound /\ args[s].no_interactive

\* a fatal failure has ended the run of section s: a failed input check, a
\* reviewer call that timed out or did not start, or a missing revised file
FatalFailure(s) ==
    \/ ~checks[s].section_is_file
    \/ ~checks[s].prompt_is_file
    \/ \E i \in 1..Len(calls[s]) : calls[s][i].outcome \in {"timeout", "notfound"}
    \/ \E p \in revised_seen[s] : ~p[2]

\* C15: in a full run without the interactive wait, a round is only invoked
\* when the files of all rounds before it are written, and no round above
\* max_rounds is invoked; the run ends with status 1 only after a fatal
\* failure; when it ends with status 0 and no round output has the approval
\* phrase, exactly the rounds 1..max_rounds were invoked and written and the
\* summary says not approved, with one record per round; with max_rounds = 1
\* the revised file is never looked at.
C15_BudgetExhaustion ==
    \A s \in Secs :
        FullRunNoWait(s) =>
            LET budget == 1..args[s].max_rounds IN
            /\ invoked[s] \subseteq budget
            /\ \A r \in invoked[s] : \A q \in 1..(r - 1) : q \in written[s]
            /\ waited[s] = {}
            /\ pc[s] = "exit1" => FatalFailure(s)
            /\ (/\ pc[s] = "exit0"
                /\ \A r \in written[s] : ~HasApproval(Persisted(s, r))) =>
                   /\ invoked[s] = budget
                   /\ written[s] = budget
                   /\ DOMAIN files[s] = budget
                   /\ summary[s] # <<>>
                   /\ ~summary[s][1].approved
                   /\ [i \in 1..Len(summary[s][1].history) |->
                           summary[s][1].history[i].round]
                          = [i \in budget |-> i]
            /\ args[s].max_rounds = 1 => revised_seen[s] = {}

\* a full run of three rounds without the wait has ended with status 0 and
\* none of its outputs has the approval phrase
C15_Witness ==
    /\ FullRunNoWait("s1")
    /\ args["s1"].max_rounds = 3
    /\ pc["s1"] = "exit0"
    /\ written["s1"] = {1, 2, 3}
    /\ \A r \in written["s1"] : ~HasApproval(Persisted("s1", r))

\* the largest element of a non-empty finite set of integers
Max(S) == CHOOSE x \in S : \A y \in S : y <= x

\* C16: whenever a run has ended through the summary, in a full run or in
\* single-round mode, the summary has one record per round file of the
\* directory, in increasing round number, each with the number of critical
\* and warning glyphs of that round's reviewer output; and it says approved
\* exactly when the output of the highest-numbered round file has the
\* approval phrase.
C16_SummaryContent ==
    \A s \in Secs :
        pc[s] = "exit0" =>
            LET rounds == Sorted(DOMAIN files[s]) IN
            /\ summary[s] # <<>>
            /\ summary[s][1].history =
                   [i \in 1..Len(rounds) |->
                       [round  |-> rounds[i],
                        issues |-> count_issues(Persisted(s, rounds[i]))]]
            /\ summary[s][1].approved <=>
                   (/\ DOMAIN files[s] # {}
                    /\ HasApproval(Persisted(s, Max(DOMAIN files[s]))))

\* C17: when the wait before round r >= 2 of an interactive run is answered
\* with q, with quit (in any case, white space around it) or with the end
\* of the input, round r and the rounds after it are not run: the revised
\* file is not looked at for them, the reviewer is not called, no file of
\* round r is written; the run goes to the summary, which lists the round
\* files persisted so far, and ends with status 0.
C17_InteractiveStop ==
    \A s \in Secs :
        user_input[s] \in {<<"q">>, <<" ", "Q", "U", "I", "T">>, EndOfInput} =>
            LET r == round_num[s] IN
            /\ r >= 2
            /\ r \in waited[s]
            /\ interactive(args[s])
            /\ pc[s] \in {"summary", "exit0"}
            /\ calls[s] = <<>>
            /\ \A q \in invoked[s] \cup written[s] : q < r
            /\ \A p \in revised_seen[s] : p[1] < r
            /\ pc[s] = "exit0" =>
                   /\ summary[s] # <<>>
                   /\ summary[s][1].history = RoundHistory(files[s])

\* an interactive full run has written round 1, got the end of the input at
\* the wait before round 2 and has ended with the summary of round 1
C17_Witness ==
    /\ pc["s1"] = "exit0"
    /\ args["s1"].single_round = NoRound
    /\ user_input["s1"] = EndOfInput
    /\ round_num["s1"] = 2
    /\ written["s1"] = {1}
    /\ summary["s1"] # <<>>
    /\ Len(summary["s1"][1].history) = 1

\* C18: a start of the loop that finds no section file or no prompt for the
\* review type ends with status 1 and leaves the iteration directory as it
\* was (round files and summary), without a reviewer call; and the
\* extractor started for a plan file that does not exist ends with status 1
\* and leaves the sections directory as it was.
C18_ConfigErrorsLeaveNoState ==
    [][ /\ \A s \in Secs :
              (~checks'[s].section_is_file \/ ~checks'[s].prompt_is_file) =>
                  /\ pc'[s] = "exit1"
                  /\ files' = files
                  /\ summary' = summary
                  /\ invoked'[s] = {}
                  /\ written'[s] = {}
                  /\ calls'[s] = <<>>
        /\ plan' # "file" =>
              /\ segpc' \in {"off", "main", "exit1"}
              /\ sections_dir' = sections_dir ]_vars

\* after a run that wrote round 1 and the summary, a start without a prompt
\* for the review type has ended with status 1 and both are still there;
\* the extractor has ended with status 1 next to the old sections directory
C18_Witness ==
    /\ pc["s1"] = "exit1"
    /\ checks["s1"].section_is_file
    /\ ~checks["s1"].prompt_is_file
    /\ 1 \in DOMAIN files["s1"]
    /\ summary["s1"] # <<>>
    /\ segpc = "exit1"
    /\ plan = "missing"
    /\ sections_dir = <<StaleDir>>

\* C19: with the loops of two section files of one document interleaved,
\* the iteration directories of the two are different; a step that changes
\* the round files or the summary of a directory is a step of the loop of
\* that section, so the reset, the round files and the summary of a loop
\* stay in its own directory; a round written by a loop is a file of its
\* own directory, and the summary of a loop lists the files of its own
\* directory only.
C19_DirectoriesDisjoint ==
    /\ [] (DOMAIN files = Secs /\ DOMAIN summary = Secs)
    /\ [][ \A d \in DOMAIN files :
             (files'[d] # files[d] \/ summary'[d] # summary[d]) =>
                 /\ d \in Secs
                 /\ pc[d] \in {"setup", "round1", "persist", "summary"}
                 /\ pc'[d] # pc[d] ]_vars
    /\ [] (\A s \in Secs :
              /\ written[s] \subseteq DOMAIN files[s]
              /\ pc[s] = "exit0" =>
                     /\ summary[s] # <<>>
                     /\ summary[s][1].history = RoundHistory(files[s]))

\* both loops have ended with a summary, each with its two round files
C19_Witness ==
    /\ pc["s1"] = "exit0"
    /\ pc["s2"] = "exit0"
    /\ DOMAIN files["s1"] = {1, 2}
    /\ DOMAIN files["s2"] = {1, 2}
    /\ files["s1"] # files["s2"]

---------------------------------------------------------------------------
(* The summary and the way the run ends *)

\* lines 174-176, 243-245: the last reviewer call of the round was a fresh
\* one and timed out
FreshTimeout(s) ==
    /\ calls[s] # <<>>
    /\ ~calls[s][Len(calls[s])].resume
    /\ calls[s][Len(calls[s])].outcome = "timeout"

\* lines 207-209: the revised file of the current round was not found
RevisedNotFound(s) == <<round_num[s], FALSE>> \in revised_seen[s]

\* the three fatal exits of the loop
FatalExit(s) == FreshTimeout(s) \/ RevisedNotFound(s)

\* lines 261-263: the output of the current round, a round other than 1, was
\* written and holds the approval phrase
EndedByApproval(s) ==
    /\ round_num[s] # 1
    /\ round_num[s] \in written[s]
    /\ HasApproval(last_result[s])

\* lines 199-205: the answer at the wait of the current round stops the loop
EndedByStop(s) ==
    /\ round_num[s] \in waited[s]
    /\ user_input[s] # NoInput
    /\ StopAnswer(user_input[s])

\* lines 147, 152: the for loop of a full run has run its last round
EndedByBudget(s) ==
    /\ args[s].single_round = NoRound
    /\ rounds_to_run[s] = <<>>
    /\ round_num[s] = args[s].max_rounds
    /\ round_num[s] \in written[s]

\* lines 145, 152: the one round of a single-round invocation was written
EndedBySingleRound(s) ==
    /\ args[s].single_round # NoRound
    /\ round_num[s] = args[s].single_round
    /\ round_num[s] \in written[s]

\* the loop was left by a break or by running out of rounds
NormalEnd(s) ==
    \/ EndedByApproval(s)
    \/ EndedByStop(s)
    \/ EndedByBudget(s)
    \/ EndedBySingleRound(s)

\* the process of the run has ended
Ended(s) == pc[s] \in {"exit0", "exit1"}

\* C21: no summary is written while the run goes on; when the run has ended,
\* a summary was written by it exactly if the loop was left through
\* approval, the end of the round budget, an interactive stop or the
\* completion of the single named round, and then the status is 0 and the
\* summary lists the round files; a fresh reviewer call that timed out
\* (round 1 or the fallback of a later round) and a missing revised file end
\* the run at once with status 1, without a summary written and with
\* summary.md as the start of the run left it; in an invocation with
\* --round N, N >= 2, no step before the summary step changes summary.md,
\* so after such a fatal exit it is the file the invocation found on disk.
C21_SummaryOnlyOnNormalEnd ==
    /\ [] (\A s \in Secs :
              LET d == IterationDir(s) IN
              /\ ~Ended(s) => ~summary_obs[s].written
              /\ Ended(s) => (summary_obs[s].written <=> NormalEnd(s))
              /\ summary_obs[s].written =>
                     /\ pc[s] = "exit0"
                     /\ summary[d] # <<>>
                     /\ summary[d][1].history = RoundHistory(files[d])
              /\ pc[s] = "exit0" => summary_obs[s].written
              /\ FatalExit(s) =>
                     /\ pc[s] = "exit1"
                     /\ ~summary_obs[s].written
                     /\ summary[d] = summary_obs[s].found)
    /\ [][ \A s \in Secs :
             (args'[s].single_round >= 2 /\ pc'[s] # "exit0") =>
                 summary'[IterationDir(s)] = summary[IterationDir(s)] ]_vars

\* an invocation with --round N, N >= 2, has ended fatally after a call of
\* the reviewer and the summary of an earlier invocation is on disk
C21_Witness ==
    /\ pc["s1"] = "exit1"
    /\ args["s1"].single_round >= 2
    /\ FreshTimeout("s1")
    /\ summary[IterationDir("s1")] # <<>>
    /\ summary[IterationDir("s1")][1].approved

=============================================================================
